---- MODULE Spec2Model ----
(***************************************************************************)
(* A model of the forward/backward modules of src/net/module.py and of the *)
(* loss modules of src/src/modules/losses.py.                              *)
(*                                                                         *)
(* Spec      one module instance, built by the factory, driven by an       *)
(*           arbitrary sequence of forward/backward calls (values only).   *)
(* PipeSpec  a pass through several modules over a heap of array buffers,  *)
(*           so that aliasing (self._x = x, views, in-place -=) is visible. *)
(*                                                                         *)
(* module.py mixes tabs and spaces, so it only loads under Python 2, where *)
(* a tab advances to the next multiple of 8 columns.  Lines 89-96 of       *)
(* matmul (tab-indented, column 8) are therefore statements of the body of *)
(* matmul.forward that follow its return: matmul inherits backward and     *)
(* _cal_grad from Module.                                                  *)
(*                                                                         *)
(* Arrays hold integers; exp and log are not computed: an array that went  *)
(* through them carries the names of the operations applied to its data.   *)
(***************************************************************************)
EXTENDS Integers, Sequences, FiniteSets, TLC

VARIABLES
    variant,      \* the key of _module_class_factory the instance was built from
    shape,        \* reshape.shape
    old,          \* reshape.old
    activation,   \* Activate.activation
    keep,         \* drop.keep, a fraction <<num, den>>
    r,            \* drop.r
    slot_val,     \* the Slot's parameter value (w or b)
    slot_log,     \* the set_grad calls of the last invocation, <<name, value>> each
    self_x,       \* matmul._x
    self_t,       \* Loss._t
    self_d,       \* module.l2._d
    self_diff,    \* losses.l2._diff
    self_loss,    \* module.Loss._loss
    np_has_pow,   \* whether the numpy of the build defines np.pow
    phase,        \* lifecycle of the instance: Uninitialized, ForwardDone, BackwardDone
    call,         \* the last call: [op, arg, arg2, before]
    fwd,          \* the argument and outcome of the last forward: [x, ret]
    ret,          \* the outcome of the last call
    bufs,         \* PipeSpec: the heap of array buffers, [sym, data] each
    cur,          \* PipeSpec: the array the caller passes on, [buf, shape]
    tgt,          \* PipeSpec: the caller's target array, [buf, shape]
    cache,        \* PipeSpec: module -> the attributes its forward assigned
    seen,         \* PipeSpec: module -> the content of its cached array at its forward
    last          \* PipeSpec: the last call: [n, mod, op, arg, before, used, ret]

instVars == <<variant, shape, old, activation, keep, r, slot_val, slot_log, self_x,
              self_t, self_d, self_diff, self_loss, np_has_pow, phase, call, fwd, ret>>
pipeVars == <<bufs, cur, tgt, cache, seen, last>>
vars == <<instVars, pipeVars>>

(***************************************************************************)
(* Bounds and input sets.                                                  *)
(***************************************************************************)
MaxVal == 1

Vals == (0 - MaxVal)..MaxVal
NatVals == 0..MaxVal
GradVals == {-1, 2}

Mats(rows, cols, S) == [1..rows -> [1..cols -> S]]

(***************************************************************************)
(* Python values.  None, and an attribute that was never assigned, are the *)
(* empty tuple; an outcome is a returned value, None, or an exception.     *)
(***************************************************************************)
None == <<>>

Val(v) == [kind |-> "value", exc |-> "", val |-> v]
NoneRet == [kind |-> "None", exc |-> "", val |-> None]
Raise(e) == [kind |-> "raise", exc |-> e, val |-> None]
\* losses.Loss.backward returns the pair (gradient, None)
Pair(v) == [kind |-> "pair", exc |-> "", val |-> v]
\* a scalar mean, kept exact as the fraction num/den
Scalar(num, den) == [kind |-> "scalar", exc |-> "", val |-> <<num, den>>]

(***************************************************************************)
(* numpy on 2-D integer arrays (a sequence of rows).                       *)
(***************************************************************************)
ShapeOf(m) == <<Len(m), Len(m[1])>>
Size(m) == Len(m) * Len(m[1])

\* row-major (C order) flattening
Flat(m) == [k \in 1..Size(m) |-> m[((k - 1) \div Len(m[1])) + 1][((k - 1) % Len(m[1])) + 1]]

Unflat(d, shp) == [i \in 1..shp[1] |-> [j \in 1..shp[2] |-> d[(i - 1) * shp[2] + j]]]

\* ndarray.reshape(newshape): reshape(None) returns a view of the array as it
\* is; a shape of another element count raises ValueError
np_reshape(m, shp) ==
    IF shp = None THEN Val(m)
    ELSE IF shp[1] * shp[2] # Size(m) THEN Raise("ValueError")
    ELSE Val(Unflat(Flat(m), shp))

Max2(a, b) == IF a >= b THEN a ELSE b

\* np.maximum(0., x)
np_maximum0(m) == [i \in 1..Len(m) |-> [j \in 1..Len(m[1]) |-> Max2(0, m[i][j])]]

Transpose(m) == [j \in 1..Len(m[1]) |-> [i \in 1..Len(m) |-> m[i][j]]]

RECURSIVE SumSeq(_)
SumSeq(s) == IF s = <<>> THEN 0 ELSE s[1] + SumSeq(Tail(s))

\* a.dot(b) for 2-D a and b of matching inner dimension
Dot(a, b) ==
    [i \in 1..Len(a) |-> [j \in 1..Len(b[1]) |->
        SumSeq([k \in 1..Len(b) |-> a[i][k] * b[k][j]])]]

np_dot(a, b) == IF Len(a[1]) # Len(b) THEN Raise("ValueError") ELSE Val(Dot(a, b))

\* m.sum(-1): the sum over the last axis, one value per row
SumLastAxis(m) == [i \in 1..Len(m) |-> SumSeq(m[i])]
\* m.sum(0): the sum over the batch axis, one value per column
SumAxis0(m) == [j \in 1..Len(m[1]) |-> SumSeq([i \in 1..Len(m) |-> m[i][j]])]

\* m - n for arrays of one shape
Sub(m, n) == [i \in 1..Len(m) |-> [j \in 1..Len(m[1]) |-> m[i][j] - n[i][j]]]
\* k * m for a scalar k
Scale(k, m) == [i \in 1..Len(m) |-> [j \in 1..Len(m[1]) |-> k * m[i][j]]]
\* np.pow(m, 2)
Square(m) == [i \in 1..Len(m) |-> [j \in 1..Len(m[1]) |-> m[i][j] * m[i][j]]]

\* a [rows, n] array times a [1, f] array under numpy's broadcasting rule
BMul(m, row) ==
    IF Len(m[1]) = Len(row[1])
    THEN Val([i \in 1..Len(m) |-> [j \in 1..Len(row[1]) |-> m[i][j] * row[1][j]]])
    ELSE IF Len(row[1]) = 1
    THEN Val([i \in 1..Len(m) |-> [j \in 1..Len(m[1]) |-> m[i][j] * row[1][1]]])
    ELSE IF Len(m[1]) = 1
    THEN Val([i \in 1..Len(m) |-> [j \in 1..Len(row[1]) |-> m[i][1] * row[1][j]]])
    ELSE Raise("ValueError")

\* a [rows, n] array plus a vector of length f under numpy's broadcasting rule
BAdd(m, b) ==
    IF Len(m[1]) = Len(b)
    THEN Val([i \in 1..Len(m) |-> [j \in 1..Len(b) |-> m[i][j] + b[j]]])
    ELSE IF Len(b) = 1
    THEN Val([i \in 1..Len(m) |-> [j \in 1..Len(m[1]) |-> m[i][j] + b[1]]])
    ELSE IF Len(m[1]) = 1
    THEN Val([i \in 1..Len(m) |-> [j \in 1..Len(b) |-> m[i][1] + b[j]]])
    ELSE Raise("ValueError")

\* m / keep for keep = num/den; exact for the keep-probabilities 1/den used here
DivKeep(m, k) == [i \in 1..Len(m) |-> [j \in 1..Len(m[1]) |-> (m[i][j] * k[2]) \div k[1]]]

(***************************************************************************)
(* The methods.  Each operator returns the outcome of the call and the     *)
(* attributes the call assigns.                                            *)
(***************************************************************************)

\* Module.backward: pass
Module_backward(grad) == NoneRet

\* reshape.forward
reshape_forward(x, self_shape) == [old |-> ShapeOf(x), ret |-> np_reshape(x, self_shape)]

reshape_backward_to_shape(grad, self_old, self_shape) == np_reshape(grad, self_shape)
\* reshape.backward
reshape_backward(grad, self_old, self_shape) == np_reshape(grad, self_old)

\* linear.transform with Activate.forward
linear_forward(x) == [activation |-> x, ret |-> Val(x)]

linear_backward_checked(grad, self_activation) ==
    IF self_activation = None THEN Raise("InvalidSequence") ELSE Val(grad)
\* linear.backward
linear_backward(grad, self_activation) == Val(grad)

\* relu.transform with Activate.forward
relu_forward(x) == [activation |-> np_maximum0(x), ret |-> Val(np_maximum0(x))]

\* relu defines partial, not backward: the call runs Module.backward
relu_backward(grad, self_activation) == Module_backward(grad)

\* drop.forward, with mask the outcome of np.random.binomial(1, keep, [1, f])
drop_forward(x, self_keep, mask) ==
    [r |-> mask,
     ret |-> LET xr == BMul(x, mask)
             IN IF xr.kind = "raise" THEN xr ELSE Val(DivKeep(xr.val, self_keep))]

drop_backward_unscaled(grad, self_keep, self_r) ==
    IF self_r = None THEN Raise("AttributeError") ELSE BMul(grad, self_r)
\* drop.backward
drop_backward(grad, self_keep, self_r) ==
    IF self_r = None THEN Raise("AttributeError")
    ELSE BMul(DivKeep(grad, self_keep), self_r)

\* the outcomes of np.random.binomial(1, keep, [1, f]): with keep = 1 every
\* draw is 1
Masks(f, k) == IF k[1] = k[2] THEN Mats(1, f, {1}) ELSE Mats(1, f, {0, 1})

\* Slot.set_grad(name, fn, *args): the Slot evaluates fn(*args), value here,
\* and takes it as the gradient of name
Slot_set_grad(log, name, value) == Append(log, <<name, value>>)

\* add_biases.forward
add_biases_forward(x, b) == BAdd(x, b)

\* add_biases.backward: set_grad('b', grad.sum, -1), return grad
add_biases_backward(grad, log) ==
    [log |-> Slot_set_grad(log, "b", SumLastAxis(grad)), ret |-> Val(grad)]

\* matmul.forward
matmul_forward(x, w) == [x |-> x, ret |-> np_dot(x, w)]

\* matmul.backward: the def of lines 92-96 is local to forward, the call runs
\* Module.backward
matmul_backward(grad, log) == [log |-> log, ret |-> Module_backward(grad)]

\* module.l2._cal_loss with module.Loss.forward
l2_forward(x, t, d, loss, has_pow) ==
    IF t = None THEN [d |-> d, loss |-> loss, ret |-> Raise("AttributeError")]
    ELSE IF ~has_pow THEN [d |-> Sub(x, t), loss |-> loss, ret |-> Raise("AttributeError")]
    ELSE [d |-> Sub(x, t), loss |-> Square(Sub(x, t)), ret |-> Val(x)]

\* module.l2.backward
l2_backward(grad, d, loss) ==
    IF d = None THEN [loss |-> loss, ret |-> Raise("AttributeError")]
    ELSE [loss |-> Scale(2, d), ret |-> NoneRet]

\* losses.l2._cal_loss with losses.Loss.forward
losses_l2_forward(x, truth, has_pow) ==
    [t |-> truth, diff |-> Sub(x, truth),
     ret |-> IF has_pow THEN Scalar(SumSeq(Flat(Square(Sub(x, truth)))), Size(x))
             ELSE Raise("AttributeError")]

\* losses.l2._cal_grad with losses.Loss.backward
losses_l2_backward(grad, diff) ==
    IF diff = None THEN Raise("AttributeError") ELSE Pair(Scale(grad, diff))

(***************************************************************************)
(* Spec: one instance and its caller.                                      *)
(***************************************************************************)
Variants == {"reshape", "linear", "relu", "drop", "bias", "dot", "l2", "losses.l2"}

TargetShapes == {<<1, 4>>, <<2, 2>>, <<4, 1>>, <<2, 3>>}
ReshapeInputs == Mats(2, 2, NatVals) \cup Mats(1, 4, NatVals) \cup {<<<<1, 0, 1>>>>}
\* gradients of pairwise distinct elements, one per shape
ReshapeGrads == {Unflat(<<1, 2, 3, 4>>, s) : s \in {<<1, 4>>, <<2, 2>>, <<4, 1>>}}
                    \cup {<<<<1, 2, 3>>>>}
ActInputs == Mats(1, 2, Vals) \cup Mats(2, 1, Vals)
ActGrads == Mats(1, 2, GradVals) \cup Mats(2, 1, GradVals)
KeepProbs == {<<1, 1>>, <<1, 2>>}
DropInputs == Mats(1, 2, NatVals) \cup Mats(2, 2, 1..MaxVal)
DropGrads == Mats(1, 2, GradVals) \cup {<<<<-1, 2>>, <<2, 2>>>>, <<<<2, -1>>, <<-1, -1>>>>}
                 \cup {<<<<2>>, <<-1>>>>, <<<<1, 2, 3>>>>}
Biases == {<<1, -1>>, <<0, 2>>}
BiasInputs == Mats(2, 2, {0, 1}) \cup Mats(1, 2, NatVals)
BiasGrads == Mats(2, 2, GradVals) \cup Mats(1, 2, GradVals)
\* x of shape [2,3], w of shape [3,4], grad of shape [2,4]
DotRows == {<<1, 0, -1>>, <<0, 2, 1>>}
DotInputs == [1..2 -> DotRows] \cup {<<<<1, 2>>, <<0, 1>>>>}
Weights == {<<<<1, 0, 2, 0>>, <<0, 1, 0, -1>>, <<1, 1, 0, 0>>>>,
            <<<<0, 1, 0, 1>>, <<2, 0, 1, 0>>, <<0, 0, -1, 1>>>>}
DotGrads == {<<<<1, 1, 1, 1>>, <<1, 1, 1, 1>>>>, <<<<1, 0, 2, 0>>, <<0, -1, 0, 1>>>>}
L2Inputs == Mats(1, 2, Vals)
L2Targets == {<<<<0, 1>>>>, <<<<1, -1>>>>}
GradScalars == {1, 3}

NoCall == [op |-> "none", arg |-> None, arg2 |-> None, before |-> "Uninitialized"]
NoFwd == [x |-> None, ret |-> NoneRet]
PipeIdle ==
    /\ bufs = <<>>
    /\ cur = None
    /\ tgt = None
    /\ cache = <<>>
    /\ seen = <<>>
    /\ last = None

\* module_class_factory(name)(slot, ...): Module.__init__ with the variant's
\* _setup, or losses.Loss.__init__
Init ==
    /\ variant \in Variants
    /\ shape \in (IF variant = "reshape" THEN TargetShapes ELSE {None})
    /\ old = None
    /\ activation = None
    /\ keep \in (IF variant = "drop" THEN KeepProbs ELSE {None})
    /\ r = None
    /\ slot_val \in (IF variant = "bias" THEN Biases
                     ELSE IF variant = "dot" THEN Weights ELSE {None})
    /\ slot_log = <<>>
    /\ self_x = None
    /\ self_t = None
    /\ self_d = None
    /\ self_diff = None
    /\ self_loss = None
    /\ np_has_pow \in (IF variant \in {"l2", "losses.l2"} THEN BOOLEAN ELSE {FALSE})
    /\ phase = "Uninitialized"
    /\ call = NoCall
    /\ fwd = NoFwd
    /\ ret = NoneRet
    /\ PipeIdle

\* the caller's record of a forward call and of its outcome
DidForward(x, x2, out) ==
    /\ call' = [op |-> "forward", arg |-> x, arg2 |-> x2, before |-> phase]
    /\ phase' = "ForwardDone"
    /\ fwd' = [x |-> x, ret |-> out]
    /\ ret' = out
    /\ UNCHANGED <<variant, np_has_pow, pipeVars>>

\* the caller's record of a backward call and of its outcome
DidBackward(grad, out) ==
    /\ call' = [op |-> "backward", arg |-> grad, arg2 |-> None, before |-> phase]
    /\ phase' = "BackwardDone"
    /\ ret' = out
    /\ UNCHANGED <<variant, np_has_pow, fwd, pipeVars>>

ReshapeForward ==
    /\ variant = "reshape"
    /\ \E x \in ReshapeInputs :
        LET o == reshape_forward(x, shape)
        IN /\ old' = o.old
           /\ DidForward(x, None, o.ret)
    /\ slot_log' = <<>>
    /\ UNCHANGED <<shape, activation, keep, r, slot_val, self_x, self_t, self_d,
                   self_diff, self_loss>>

ReshapeBackward ==
    /\ variant = "reshape"
    /\ \E grad \in ReshapeGrads \cup (IF fwd.ret.kind = "value" THEN {fwd.ret.val} ELSE {}) :
        DidBackward(grad, reshape_backward(grad, old, shape))
    /\ slot_log' = <<>>
    /\ UNCHANGED <<shape, old, activation, keep, r, slot_val, self_x, self_t, self_d,
                   self_diff, self_loss>>

LinearForward ==
    /\ variant = "linear"
    /\ \E x \in ActInputs :
        LET o == linear_forward(x)
        IN /\ activation' = o.activation
           /\ DidForward(x, None, o.ret)
    /\ slot_log' = <<>>
    /\ UNCHANGED <<shape, old, keep, r, slot_val, self_x, self_t, self_d,
                   self_diff, self_loss>>

LinearBackward ==
    /\ variant = "linear"
    /\ \E grad \in ActGrads : DidBackward(grad, linear_backward(grad, activation))
    /\ slot_log' = <<>>
    /\ UNCHANGED <<shape, old, activation, keep, r, slot_val, self_x, self_t, self_d,
                   self_diff, self_loss>>

ReluForward ==
    /\ variant = "relu"
    /\ \E x \in ActInputs :
        LET o == relu_forward(x)
        IN /\ activation' = o.activation
           /\ DidForward(x, None, o.ret)
    /\ slot_log' = <<>>
    /\ UNCHANGED <<shape, old, keep, r, slot_val, self_x, self_t, self_d,
                   self_diff, self_loss>>

ReluBackward ==
    /\ variant = "relu"
    /\ \E grad \in ActGrads : DidBackward(grad, relu_backward(grad, activation))
    /\ slot_log' = <<>>
    /\ UNCHANGED <<shape, old, activation, keep, r, slot_val, self_x, self_t, self_d,
                   self_diff, self_loss>>

DropForward ==
    /\ variant = "drop"
    /\ \E x \in DropInputs : \E mask \in Masks(Len(x[1]), keep) :
        LET o == drop_forward(x, keep, mask)
        IN /\ r' = o.r
           /\ DidForward(x, None, o.ret)
    /\ slot_log' = <<>>
    /\ UNCHANGED <<shape, old, activation, keep, slot_val, self_x, self_t, self_d,
                   self_diff, self_loss>>

DropBackward ==
    /\ variant = "drop"
    /\ \E grad \in DropGrads : DidBackward(grad, drop_backward(grad, keep, r))
    /\ slot_log' = <<>>
    /\ UNCHANGED <<shape, old, activation, keep, r, slot_val, self_x, self_t, self_d,
                   self_diff, self_loss>>

AddBiasesForward ==
    /\ variant = "bias"
    /\ \E x \in BiasInputs : DidForward(x, None, add_biases_forward(x, slot_val))
    /\ slot_log' = <<>>
    /\ UNCHANGED <<shape, old, activation, keep, r, slot_val, self_x, self_t, self_d,
                   self_diff, self_loss>>

AddBiasesBackward ==
    /\ variant = "bias"
    /\ \E grad \in BiasGrads :
        LET o == add_biases_backward(grad, <<>>)
        IN /\ slot_log' = o.log
           /\ DidBackward(grad, o.ret)
    /\ UNCHANGED <<shape, old, activation, keep, r, slot_val, self_x, self_t, self_d,
                   self_diff, self_loss>>

MatmulForward ==
    /\ variant = "dot"
    /\ \E x \in DotInputs :
        LET o == matmul_forward(x, slot_val)
        IN /\ self_x' = o.x
           /\ DidForward(x, None, o.ret)
    /\ slot_log' = <<>>
    /\ UNCHANGED <<shape, old, activation, keep, r, slot_val, self_t, self_d,
                   self_diff, self_loss>>

MatmulBackward ==
    /\ variant = "dot"
    /\ \E grad \in DotGrads :
        LET o == matmul_backward(grad, <<>>)
        IN /\ slot_log' = o.log
           /\ DidBackward(grad, o.ret)
    /\ UNCHANGED <<shape, old, activation, keep, r, slot_val, self_x, self_t, self_d,
                   self_diff, self_loss>>

\* module.Loss.set_target
L2SetTarget ==
    /\ variant = "l2"
    /\ \E t \in L2Targets :
        /\ self_t' = t
        /\ call' = [op |-> "set_target", arg |-> t, arg2 |-> None, before |-> phase]
    /\ ret' = NoneRet
    /\ slot_log' = <<>>
    /\ UNCHANGED <<variant, np_has_pow, pipeVars, phase, fwd, shape, old, activation,
                   keep, r, slot_val, self_x, self_d, self_diff, self_loss>>

L2Forward ==
    /\ variant = "l2"
    /\ \E x \in L2Inputs :
        LET o == l2_forward(x, self_t, self_d, self_loss, np_has_pow)
        IN /\ self_d' = o.d
           /\ self_loss' = o.loss
           /\ DidForward(x, None, o.ret)
    /\ slot_log' = <<>>
    /\ UNCHANGED <<shape, old, activation, keep, r, slot_val, self_x, self_t, self_diff>>

L2Backward ==
    /\ variant = "l2"
    /\ \E grad \in GradScalars :
        LET o == l2_backward(grad, self_d, self_loss)
        IN /\ self_loss' = o.loss
           /\ DidBackward(grad, o.ret)
    /\ slot_log' = <<>>
    /\ UNCHANGED <<shape, old, activation, keep, r, slot_val, self_x, self_t, self_d,
                   self_diff>>

LossesL2Forward ==
    /\ variant = "losses.l2"
    /\ \E x \in L2Inputs : \E truth \in L2Targets :
        LET o == losses_l2_forward(x, truth, np_has_pow)
        IN /\ self_t' = o.t
           /\ self_diff' = o.diff
           /\ DidForward(x, truth, o.ret)
    /\ slot_log' = <<>>
    /\ UNCHANGED <<shape, old, activation, keep, r, slot_val, self_x, self_d, self_loss>>

LossesL2Backward ==
    /\ variant = "losses.l2"
    /\ \E grad \in GradScalars : DidBackward(grad, losses_l2_backward(grad, self_diff))
    /\ slot_log' = <<>>
    /\ UNCHANGED <<shape, old, activation, keep, r, slot_val, self_x, self_t, self_d,
                   self_diff, self_loss>>

Next ==
    \/ ReshapeForward
    \/ ReshapeBackward
    \/ LinearForward
    \/ LinearBackward
    \/ ReluForward
    \/ ReluBackward
    \/ DropForward
    \/ DropBackward
    \/ AddBiasesForward
    \/ AddBiasesBackward
    \/ MatmulForward
    \/ MatmulBackward
    \/ L2SetTarget
    \/ L2Forward
    \/ L2Backward
    \/ LossesL2Forward
    \/ LossesL2Backward

Spec == Init /\ [][Next]_vars

(***************************************************************************)
(* Properties of Spec.                                                     *)
(***************************************************************************)
InCycle ==
    \/ call.op = "forward" /\ call.before \in {"Uninitialized", "BackwardDone"}
    \/ call.op = "backward" /\ call.before = "ForwardDone"

C2_MatmulBackward ==
    (variant = "dot" /\ call.op = "backward" /\ call.before = "ForwardDone"
        /\ fwd.ret.kind = "value")
        => /\ slot_log = <<<<"w", Dot(Transpose(fwd.x), call.arg)>>>>
           /\ ret.kind = "value"
           /\ ret.val = Dot(call.arg, Transpose(slot_val))

\* C3: for add_biases, backward(grad) reports the sum of grad over the batch
\* axis (axis 0) to the Slot for 'b' and returns grad unchanged.
C3_BiasGradAxis0 ==
    (variant = "bias" /\ call.op = "backward")
        => /\ Len(slot_log) = 1
           /\ slot_log[1][1] = "b"
           /\ slot_log[1][2] = SumAxis0(call.arg)
           /\ ret.kind = "value"
           /\ ret.val = call.arg

\* C4: for matmul ('w') and add_biases ('b'), every backward makes exactly one
\* set_grad call, for the module's parameter, and forward makes none.
C4_ExactlyOneSetGrad ==
    (variant \in {"dot", "bias"})
        => /\ call.op = "backward"
                 => /\ Len(slot_log) = 1
                    /\ slot_log[1][1] = (IF variant = "dot" THEN "w" ELSE "b")
           /\ call.op = "forward" => slot_log = <<>>

\* the mask times m, row by row, divided by keep = num/den
Masked(m, mask, k) ==
    [i \in 1..Len(m) |-> [j \in 1..Len(m[1]) |-> (m[i][j] * mask[1][j] * k[2]) \div k[1]]]

\* C5: for drop, forward(x) leaves a keep-mask of shape [1, features] that
\* every batch row of the output shares; at the matching backward the mask is
\* still the one the forward output was computed with, and backward(grad)
\* returns grad times that mask divided by the same keep-probability.
C5_DropMask ==
    (variant = "drop")
        => /\ call.op = "forward"
                 => /\ r \in Mats(1, Len(call.arg[1]), {0, 1})
                    /\ ret.kind = "value"
                    /\ ret.val = Masked(call.arg, r, keep)
           /\ fwd.x # None => fwd.ret.val = Masked(fwd.x, r, keep)
           /\ (call.op = "backward" /\ call.before = "ForwardDone"
                 /\ ShapeOf(call.arg) = ShapeOf(fwd.x))
                 => /\ ret.kind = "value"
                    /\ ret.val = Masked(call.arg, r, keep)

C5_Witness ==
    /\ variant = "drop"
    /\ keep = <<1, 2>>
    /\ call.op = "backward"
    /\ call.before = "ForwardDone"
    /\ Len(fwd.x) = 2
    /\ ShapeOf(call.arg) = ShapeOf(fwd.x)
    /\ r = <<<<1, 0>>>>
    /\ ret.val = <<<<-2, 0>>, <<4, 0>>>>

\* C6: for relu, a backward(grad) that follows forward(x) returns the grad
\* element where the activation max(0, x) is positive and 0 elsewhere.
C6_ReluBackward ==
    (variant = "relu" /\ call.op = "backward" /\ call.before = "ForwardDone"
        /\ ShapeOf(call.arg) = ShapeOf(fwd.x))
        => /\ ret.kind = "value"
           /\ ret.val = [i \in 1..Len(fwd.x) |-> [j \in 1..Len(fwd.x[1]) |->
                            IF fwd.x[i][j] > 0 THEN call.arg[i][j] ELSE 0]]

\* C7: for the l2 loss, a backward(grad) that follows a successful forward
\* returns 2.grad.(x - t) from the difference cached at forward, and leaves the
\* loss stored by forward unchanged.
C7_L2Backward ==
    (variant \in {"l2", "losses.l2"} /\ call.op = "backward"
        /\ call.before = "ForwardDone" /\ fwd.ret.kind \in {"value", "scalar"})
        => /\ ret.kind \in {"value", "pair"}
           /\ ret.val = Scale(2 * call.arg,
                              IF variant = "l2" THEN self_d ELSE self_diff)
           /\ variant = "l2" => self_loss = Square(self_d)

\* the k-th element of m in row-major order
At(m, k) == m[((k - 1) \div Len(m[1])) + 1][((k - 1) % Len(m[1])) + 1]

\* C10: for reshape, forward(x) to a shape of x's element count returns x's
\* elements in the same order, and a backward that follows it, applied to a
\* gradient of the shape forward returned, yields an array of x's shape with
\* the gradient's elements in the same order; applied to forward(x) itself it
\* returns x.
C10_ReshapeRoundTrip ==
    (variant = "reshape")
        => /\ (call.op = "forward" /\ shape[1] * shape[2] = Size(call.arg))
                 => /\ ret.kind = "value"
                    /\ ShapeOf(ret.val) = shape
                    /\ \A k \in 1..Size(call.arg) : At(ret.val, k) = At(call.arg, k)
           /\ (call.op = "backward" /\ call.before = "ForwardDone"
                 /\ fwd.ret.kind = "value"
                 /\ ShapeOf(call.arg) = ShapeOf(fwd.ret.val))
                 => /\ ret.kind = "value"
                    /\ ShapeOf(ret.val) = ShapeOf(fwd.x)
                    /\ \A k \in 1..Size(call.arg) : At(ret.val, k) = At(call.arg, k)
                    /\ call.arg = fwd.ret.val => ret.val = fwd.x

C10_Witness ==
    /\ variant = "reshape"
    /\ shape = <<1, 4>>
    /\ call.op = "backward"
    /\ call.before = "ForwardDone"
    /\ fwd.x = <<<<0, 1>>, <<1, 0>>>>
    /\ call.arg = <<<<0, 1, 1, 0>>>>
    /\ ret.val = fwd.x

(***************************************************************************)
(* PipeSpec: a pass of the caller's array through module instances.  An    *)
(* array is a reference [buf, shape] into the heap bufs; a buffer holds    *)
(* its elements in row-major order (data) and, once exp or log was applied *)
(* to them, the names of the operations applied (sym).                     *)
(***************************************************************************)
MaxStages == 3

Num(d) == [sym |-> <<>>, data |-> d]
NoBuf == [sym |-> <<"unset">>, data |-> <<>>]
Ref(b, shp) == [buf |-> b, shape |-> shp]
NoRef == Ref(0, <<>>)
IsNum(bs, a) == bs[a.buf].sym = <<>>
Arr(bs, a) == Unflat(bs[a.buf].data, a.shape)

PipeShape == <<1, 4>>
PipeW == <<<<1, -1>>, <<0, 2>>>>
PipeB == <<1, -1>>
PipeKeep == <<1, 2>>
PipeInputs == {<<<<1, -1>>, <<0, 2>>>>, <<<<0, -1>>, <<-2, 0>>>>, <<<<2, 1>>>>}
OneHot(shp) ==
    [i \in 1..shp[1] |-> [j \in 1..shp[2] |-> IF j = ((i - 1) % shp[2]) + 1 THEN 1 ELSE 0]]

RECURSIVE MaxSeq(_)
\* row.max()
MaxSeq(row) == IF Len(row) = 1 THEN row[1] ELSE Max2(row[1], MaxSeq(Tail(row)))

\* m - m.max(1, keepdims = True)
SubRowMax(m) == [i \in 1..Len(m) |-> [j \in 1..Len(m[1]) |-> m[i][j] - MaxSeq(m[i])]]

\* whether numpy broadcasts arrays of shapes s1 and s2 together
Broadcastable(s1, s2) == \A d \in 1..2 : s1[d] = s2[d] \/ s1[d] = 1 \/ s2[d] = 1

\* a - b under numpy's broadcasting rule, for broadcastable shapes
BSub(a, b) ==
    [i \in 1..Max2(Len(a), Len(b)) |-> [j \in 1..Max2(Len(a[1]), Len(b[1])) |->
        a[IF Len(a) = 1 THEN 1 ELSE i][IF Len(a[1]) = 1 THEN 1 ELSE j]
          - b[IF Len(b) = 1 THEN 1 ELSE i][IF Len(b[1]) = 1 THEN 1 ELSE j]]]

NoCache ==
    [reshape_old |-> None, linear_activation |-> NoRef, relu_activation |-> NoRef,
     sigmoid_activation |-> NoRef, softmax_activation |-> NoRef, drop_r |-> None,
     matmul_x |-> NoRef, crossent_t |-> NoRef, crossent_x |-> NoRef, l2_t |-> NoRef,
     l2_diff |-> NoRef, sc_t |-> NoRef, sc_log_soft |-> NoRef]

NoSeen ==
    [linear_activation |-> NoBuf, relu_activation |-> NoBuf, sigmoid_activation |-> NoBuf,
     softmax_activation |-> NoBuf, matmul_x |-> NoBuf, crossent_x |-> NoBuf,
     l2_diff |-> NoBuf, sc_log_soft |-> NoBuf]

PipeInit ==
    /\ variant = "pipeline"
    /\ shape = None
    /\ old = None
    /\ activation = None
    /\ keep = None
    /\ r = None
    /\ slot_val = None
    /\ slot_log = <<>>
    /\ self_x = None
    /\ self_t = None
    /\ self_d = None
    /\ self_diff = None
    /\ self_loss = None
    /\ np_has_pow \in BOOLEAN
    /\ phase = "Uninitialized"
    /\ call = NoCall
    /\ fwd = NoFwd
    /\ ret = NoneRet
    /\ \E x \in PipeInputs :
        /\ bufs = <<Num(Flat(x)), Num(Flat(OneHot(ShapeOf(x))))>>
        /\ cur = Ref(1, ShapeOf(x))
        /\ tgt = Ref(2, ShapeOf(x))
    /\ cache = NoCache
    /\ seen = NoSeen
    /\ last = [n |-> 0, mod |-> "", field |-> "", op |-> "none", arg |-> NoRef,
               before |-> <<>>, used |-> NoBuf, ret |-> ""]

\* the caller's record of mod.forward(cur) and of what the call left
PipeForward(mod, bs, c, cch, sn, outcome) ==
    /\ bufs' = bs
    /\ cur' = c
    /\ cache' = cch
    /\ seen' = sn
    /\ last' = [n |-> last.n + 1, mod |-> mod, field |-> "", op |-> "forward", arg |-> cur,
                before |-> bufs, used |-> NoBuf, ret |-> outcome]
    /\ UNCHANGED <<instVars, tgt>>

\* the caller's record of a backward that read the cached array of field
PipeBackward(mod, field, a, failure) ==
    /\ last' = [n |-> last.n, mod |-> mod, field |-> field, op |-> "backward",
                arg |-> NoRef, before |-> bufs,
                used |-> IF a = NoRef THEN NoBuf ELSE bufs[a.buf],
                ret |-> IF a = NoRef THEN failure ELSE "array"]
    /\ UNCHANGED <<instVars, bufs, cur, tgt, cache, seen>>

CanForward == cur # NoRef /\ last.n < MaxStages

\* reshape.forward: x.reshape returns a view, an array on the buffer of x
PReshapeForward ==
    /\ CanForward
    /\ LET o == reshape_forward(Arr(bufs, cur), PipeShape)
       IN PipeForward("reshape", bufs,
                      IF o.ret.kind = "value" THEN Ref(cur.buf, PipeShape) ELSE cur,
                      [cache EXCEPT !.reshape_old = o.old], seen, o.ret.kind)

\* linear.forward: the activation is x itself
PLinearForward ==
    /\ CanForward
    /\ PipeForward("linear", bufs, cur, [cache EXCEPT !.linear_activation = cur],
                   [seen EXCEPT !.linear_activation = bufs[cur.buf]], "value")

\* relu.forward: np.maximum allocates the activation
PReluForward ==
    /\ CanForward
    /\ IsNum(bufs, cur)
    /\ LET a == Ref(Len(bufs) + 1, cur.shape)
           b == Num(Flat(relu_forward(Arr(bufs, cur)).activation))
       IN PipeForward("relu", Append(bufs, b), a, [cache EXCEPT !.relu_activation = a],
                      [seen EXCEPT !.relu_activation = b], "value")

\* sigmoid.forward: 1. / (1. + np.exp(-x)) allocates the activation
PSigmoidForward ==
    /\ CanForward
    /\ IsNum(bufs, cur)
    /\ LET a == Ref(Len(bufs) + 1, cur.shape)
           b == [sym |-> <<"sigmoid">>, data |-> bufs[cur.buf].data]
       IN PipeForward("sigmoid", Append(bufs, b), a, [cache EXCEPT !.sigmoid_activation = a],
                      [seen EXCEPT !.sigmoid_activation = b], "value")

\* softmax.forward: x - row_max, np.exp and np.divide allocate
PSoftmaxForward ==
    /\ CanForward
    /\ IsNum(bufs, cur)
    /\ LET a == Ref(Len(bufs) + 1, cur.shape)
           b == [sym |-> <<"softmax">>, data |-> bufs[cur.buf].data]
       IN PipeForward("softmax", Append(bufs, b), a, [cache EXCEPT !.softmax_activation = a],
                      [seen EXCEPT !.softmax_activation = b], "value")

\* drop.forward
PDropForward ==
    /\ CanForward
    /\ IsNum(bufs, cur)
    /\ \E mask \in Masks(cur.shape[2], PipeKeep) :
        LET o == drop_forward(Arr(bufs, cur), PipeKeep, mask)
        IN PipeForward("drop", Append(bufs, Num(Flat(o.ret.val))),
                       Ref(Len(bufs) + 1, cur.shape), [cache EXCEPT !.drop_r = o.r],
                       seen, "value")

\* add_biases.forward
PAddBiasesForward ==
    /\ CanForward
    /\ IsNum(bufs, cur)
    /\ LET o == add_biases_forward(Arr(bufs, cur), PipeB)
       IN IF o.kind = "raise"
          THEN PipeForward("add_biases", bufs, cur, cache, seen, o.exc)
          ELSE PipeForward("add_biases", Append(bufs, Num(Flat(o.val))),
                           Ref(Len(bufs) + 1, ShapeOf(o.val)), cache, seen, "value")

\* matmul.forward: self._x is x itself
PMatmulForward ==
    /\ CanForward
    /\ IsNum(bufs, cur)
    /\ LET o == matmul_forward(Arr(bufs, cur), PipeW)
           cch == [cache EXCEPT !.matmul_x = cur]
           sn == [seen EXCEPT !.matmul_x = bufs[cur.buf]]
       IN IF o.ret.kind = "raise"
          THEN PipeForward("matmul", bufs, cur, cch, sn, o.ret.exc)
          ELSE PipeForward("matmul", Append(bufs, Num(Flat(o.ret.val))),
                           Ref(Len(bufs) + 1, ShapeOf(o.ret.val)), cch, sn, "value")

\* losses.crossent.forward(x, truth): self._x is x itself; np.multiply raises
\* for shapes that do not broadcast; the loss is a scalar
PCrossentForward ==
    /\ CanForward
    /\ LET cch == [cache EXCEPT !.crossent_t = tgt, !.crossent_x = cur]
           sn == [seen EXCEPT !.crossent_x = bufs[cur.buf]]
       IN IF Broadcastable(tgt.shape, cur.shape)
          THEN PipeForward("crossent", bufs, NoRef, cch, sn, "scalar")
          ELSE PipeForward("crossent", bufs, cur, cch, sn, "ValueError")

\* losses.l2.forward(x, truth)
PL2Forward ==
    /\ CanForward
    /\ IsNum(bufs, cur)
    /\ IF ~Broadcastable(cur.shape, tgt.shape)
       THEN PipeForward("l2", bufs, cur, [cache EXCEPT !.l2_t = tgt], seen, "ValueError")
       ELSE LET d == Num(Flat(BSub(Arr(bufs, cur), Arr(bufs, tgt))))
                a == Ref(Len(bufs) + 1, ShapeOf(BSub(Arr(bufs, cur), Arr(bufs, tgt))))
                cch == [cache EXCEPT !.l2_t = tgt, !.l2_diff = a]
                sn == [seen EXCEPT !.l2_diff = d]
            IN IF np_has_pow
               THEN PipeForward("l2", Append(bufs, d), NoRef, cch, sn, "scalar")
               ELSE PipeForward("l2", Append(bufs, d), cur, cch, sn, "AttributeError")

\* the buffer of array a after a -= a.max(1, keepdims = True)
ShiftedInPlace(bs, a) ==
    IF IsNum(bs, a) THEN Num(Flat(SubRowMax(Arr(bs, a))))
    ELSE [sym |-> Append(bs[a.buf].sym, "sub_rowmax"), data |-> bs[a.buf].data]

\* softmax_crossent.forward(x, truth): x -= x.max(1, keepdims = True) writes
\* the buffer of x; self._log_soft is allocated; np.multiply raises for shapes
\* that do not broadcast; the loss is a scalar
PSoftmaxCrossentForward ==
    /\ CanForward
    /\ LET shifted == ShiftedInPlace(bufs, cur)
           ls == [sym |-> Append(shifted.sym, "log_softmax"), data |-> shifted.data]
           a == Ref(Len(bufs) + 1, cur.shape)
           bs == Append([bufs EXCEPT ![cur.buf] = shifted], ls)
           cch == [cache EXCEPT !.sc_t = tgt, !.sc_log_soft = a]
           sn == [seen EXCEPT !.sc_log_soft = ls]
       IN IF Broadcastable(tgt.shape, cur.shape)
          THEN PipeForward("softmax_crossent", bs, NoRef, cch, sn, "scalar")
          ELSE PipeForward("softmax_crossent", bs, cur, cch, sn, "ValueError")

\* sigmoid.backward reads self.activation
PSigmoidBackward ==
    PipeBackward("sigmoid", "sigmoid_activation", cache.sigmoid_activation, "TypeError")

\* softmax.backward reads self.activation
PSoftmaxBackward ==
    PipeBackward("softmax", "softmax_activation", cache.softmax_activation, "TypeError")

\* softmax_crossent._cal_grad reads self._log_soft
PSoftmaxCrossentBackward ==
    PipeBackward("softmax_crossent", "sc_log_soft", cache.sc_log_soft, "AttributeError")

PipeNext ==
    \/ PReshapeForward
    \/ PLinearForward
    \/ PReluForward
    \/ PSigmoidForward
    \/ PSoftmaxForward
    \/ PDropForward
    \/ PAddBiasesForward
    \/ PMatmulForward
    \/ PCrossentForward
    \/ PL2Forward
    \/ PSoftmaxCrossentForward
    \/ PSigmoidBackward
    \/ PSoftmaxBackward
    \/ PSoftmaxCrossentBackward

PipeSpec == PipeInit /\ [][PipeNext]_vars

(***************************************************************************)
(* Properties of PipeSpec.                                                 *)
(***************************************************************************)

\* C8: forward(x) of every module variant leaves the element values of the
\* caller's array x as they were before the call.
C8_ForwardKeepsInput ==
    (last.op = "forward") => bufs[last.arg.buf] = last.before[last.arg.buf]

\* C9: the array a module cached at its forward is its own: at its backward
\* the array still holds the values it held at that forward, whatever other
\* modules' forwards ran in between.
C9_BackwardUsesForwardValues ==
    (last.op = "backward" /\ last.ret = "array") => last.used = seen[last.field]

====
